---- MODULE Spec2Model ----
(***************************************************************************)
(* Model of src/projeto.py: the console order system.                      *)
(*                                                                         *)
(* A line of text is a sequence of one-character strings, so that float(), *)
(* int(), str.lower() and str.split(",") are computed character by         *)
(* character.  A float is a fixed-point number counted in hundredths       *)
(* (Scale); every amount the model reaches is exact in that unit.          *)
(* Standard output is the sequence `out` of the lines printed and prompts  *)
(* shown, in order.                                                        *)
(***************************************************************************)
EXTENDS Integers, Sequences, FiniteSets, TLC

\* ------------------------------------------------------------- bounds
\* Orders a session places at most under Spec (the full vocabulary of lines).
MaxOrders == 1
\* Orders a session places at most under SpecLoop (the reduced vocabulary).
MaxLoopOrders == 2

\* ------------------------------------------------------------- numbers
\* One unit of a float amount is 1/Scale.
Scale == 100
\* PercentageDiscount(0.1), in units of 1/Scale.
TenPercent == 10

\* ------------------------------------------------------------- text
Digits == {"0", "1", "2", "3", "4", "5", "6", "7", "8", "9"}

DigitValue(c) ==
    CASE c = "0" -> 0 [] c = "1" -> 1 [] c = "2" -> 2 [] c = "3" -> 3
      [] c = "4" -> 4 [] c = "5" -> 5 [] c = "6" -> 6 [] c = "7" -> 7
      [] c = "8" -> 8 [] c = "9" -> 9

RECURSIVE LStrip(_)
LStrip(s) == IF s # <<>> /\ Head(s) = " " THEN LStrip(Tail(s)) ELSE s

RECURSIVE RStrip(_)
RStrip(s) ==
    IF s # <<>> /\ s[Len(s)] = " " THEN RStrip(SubSeq(s, 1, Len(s) - 1)) ELSE s

\* str.strip(), which float() and int() apply to their argument.
Strip(s) == RStrip(LStrip(s))

AllDigits(s) == \A i \in 1..Len(s) : s[i] \in Digits

RECURSIVE DigitsValue(_)
DigitsValue(s) ==
    IF s = <<>> THEN 0
    ELSE 10 * DigitsValue(SubSeq(s, 1, Len(s) - 1)) + DigitValue(s[Len(s)])

HasSign(s) == s # <<>> /\ Head(s) \in {"-", "+"}
Unsigned(s) == IF HasSign(s) THEN Tail(s) ELSE s
SignOf(s) == IF s # <<>> /\ Head(s) = "-" THEN -1 ELSE 1

\* The least index of character c in s, or 0.
RECURSIVE IndexOf(_, _, _)
IndexOf(s, c, i) ==
    IF i > Len(s) THEN 0 ELSE IF s[i] = c THEN i ELSE IndexOf(s, c, i + 1)

\* int(line): [ok |-> parsed, value |-> the integer]; ok = FALSE is ValueError.
ParseIntMissingSign(line) ==
    LET t == Strip(line)
    IN  IF t # <<>> /\ AllDigits(t)
        THEN [ok |-> TRUE, value |-> DigitsValue(t)]
        ELSE [ok |-> FALSE, value |-> 0]

ParseInt(line) ==
    LET t == Strip(line)
        body == Unsigned(t)
    IN  IF body # <<>> /\ AllDigits(body)
        THEN [ok |-> TRUE, value |-> SignOf(t) * DigitsValue(body)]
        ELSE [ok |-> FALSE, value |-> 0]

\* The fraction digits f (at most two) as a count of 1/Scale.
FractionValue(f) ==
    IF Len(f) = 0 THEN 0
    ELSE IF Len(f) = 1 THEN 10 * DigitsValue(f)
    ELSE DigitsValue(SubSeq(f, 1, 2))

\* float(line): [ok |-> parsed, value |-> the number in units of 1/Scale].
ParseFloat(line) ==
    LET t == Strip(line)
        body == Unsigned(t)
        dot == IndexOf(body, ".", 1)
        whole == IF dot = 0 THEN body ELSE SubSeq(body, 1, dot - 1)
        frac == IF dot = 0 THEN <<>> ELSE SubSeq(body, dot + 1, Len(body))
    IN  IF /\ AllDigits(whole) /\ AllDigits(frac)
           /\ Len(whole) + Len(frac) > 0
        THEN [ok |-> TRUE,
              value |-> SignOf(t) * (Scale * DigitsValue(whole) + FractionValue(frac))]
        ELSE [ok |-> FALSE, value |-> 0]

LowerChar(c) ==
    CASE c = "S" -> "s" [] c = "N" -> "n" [] c = "Y" -> "y"
      [] c = "I" -> "i" [] c = "M" -> "m" [] OTHER -> c

\* str.lower()
Lower(s) == [i \in 1..Len(s) |-> LowerChar(s[i])]

\* str.split(","): the pieces between the commas, empty pieces kept.
RECURSIVE Split(_)
Split(s) ==
    LET k == IndexOf(s, ",", 1)
    IN  IF k = 0 THEN <<s>>
        ELSE <<SubSeq(s, 1, k - 1)>> \o Split(SubSeq(s, k + 1, Len(s)))

\* ------------------------------------------------------------- lines of output
Prompt(w) == [ev |-> "prompt", what |-> w]
Printed(w) == [ev |-> "print", what |-> w]

\* OrderRepository.save_order
save_order(o) == [ev |-> "saved", customer |-> o.customer, items |-> o.items]

\* CreditCardPayment.process_payment / PixPayment.process_payment
process_payment(p, amount) == [ev |-> "payment", variant |-> p, amount |-> amount]

\* The line place_order prints after the discount.
FinalTotal(amount) == [ev |-> "final_total", amount |-> amount]

\* ------------------------------------------------------------- strategies
NoDiscount == [kind |-> "NoDiscount", percentage |-> 0]
PercentageDiscount(p) == [kind |-> "PercentageDiscount", percentage |-> p]
Unbound == [kind |-> "unbound", percentage |-> 0]

\* Discount.apply_discount, by variant.
apply_discount_surcharge(d, t) ==
    IF d.kind = "PercentageDiscount"
    THEN (t * (Scale + d.percentage)) \div Scale
    ELSE t

apply_discount(d, t) ==
    IF d.kind = "PercentageDiscount"
    THEN (t * (Scale - d.percentage)) \div Scale
    ELSE t


\* payment_option -> the processor built and whether the warning is printed.
select_payment_silent(option) ==
    IF option = 1 THEN [processor |-> "CreditCardPayment", warn |-> FALSE]
    ELSE IF option = 2 THEN [processor |-> "PixPayment", warn |-> FALSE]
    ELSE [processor |-> "CreditCardPayment", warn |-> FALSE]

select_payment_else_pix(option) ==
    IF option = 1 THEN [processor |-> "CreditCardPayment", warn |-> FALSE]
    ELSE IF option = 2 THEN [processor |-> "PixPayment", warn |-> FALSE]
    ELSE [processor |-> "PixPayment", warn |-> TRUE]

select_payment(option) ==
    IF option = 1 THEN [processor |-> "CreditCardPayment", warn |-> FALSE]
    ELSE IF option = 2 THEN [processor |-> "PixPayment", warn |-> FALSE]
    ELSE [processor |-> "CreditCardPayment", warn |-> TRUE]

\* continue_shopping != 's' is false: the loop goes round again.
ContinuesWithoutLower(line) == line = <<"s">>
ContinuesOnPrefix(line) == Lower(line) # <<>> /\ Head(Lower(line)) = "s"
Continues(line) == Lower(line) = <<"s">>

\* ------------------------------------------------------------- vocabulary
Ana == <<"A", "n", "a">>
Bob == <<"B", "o", "b">>
BreadMilk == <<"b", ",", "m">>
Tv == <<"t", "v">>

CustomerLines == {Ana}
ItemLines == {BreadMilk}
TotalLines ==
    { <<"1", "0", "0">>, <<"0">>, <<"-", "5", "0">>, <<"1", ".", "5">>,
      <<"a", "b", "c">> }
OptionLines ==
    { <<"1">>, <<"2">>, <<"0">>, <<"-", "3">>, <<"9">>, <<"1", ".", "5">>, <<"x">> }
AnswerLines ==
    { <<"s">>, <<"S">>, <<"n">>, <<"N">>, <<"y">>, <<"Y">>, <<>>,
      <<"s", "i", "m">>, <<" ", "s">> }

LoopCustomerLines == {Ana, Bob}
LoopItemLines == {BreadMilk, Tv}
LoopTotalLines == { <<"1", "0", "0">>, <<"a", "b", "c">> }
LoopOptionLines == { <<"2">>, <<"3">>, <<"x">> }

\* ------------------------------------------------------------- state
VARIABLES
    pc,                 \* the statement about to run
    out,                \* standard output so far
    error,              \* the exception that ended the session, "" if none
    customer, items, total, payment_option, payment_processor,
    discount_option, discount,   \* get_user_input's locals
    order,              \* Order(items, customer)
    order_service,      \* OrderService(payment_processor, discount)
    discounted_total,   \* place_order's local
    typed,              \* history: the lines typed in the current iteration
    start,              \* history: Len(out) when the current iteration began
    steps,              \* history: the statements of place_order run in the current call
    iterations,         \* history: typed lines and output of each completed order
    answers             \* history: the answers given at the continuation prompt

vars == <<pc, out, error, customer, items, total, payment_option,
          payment_processor, discount_option, discount, order, order_service,
          discounted_total, typed, start, steps, iterations, answers>>

locals == <<customer, items, total, payment_option, payment_processor,
            discount_option, discount>>
history == <<typed, start, steps, iterations, answers>>

NothingTyped ==
    [customer |-> <<>>, items |-> <<>>, total |-> <<>>, payment |-> <<>>,
     discount |-> <<>>, has |-> {}]

Type(field, line) == [typed EXCEPT ![field] = line, !.has = @ \cup {field}]

Init ==
    /\ pc = "main"
    /\ out = <<>>
    /\ error = ""
    /\ customer = <<>>
    /\ items = <<>>
    /\ total = 0
    /\ payment_option = 0
    /\ payment_processor = "unbound"
    /\ discount_option = 0
    /\ discount = Unbound
    /\ order = [items |-> <<>>, customer |-> <<>>]
    /\ order_service = [payment_processor |-> "unbound", discount |-> Unbound]
    /\ discounted_total = 0
    /\ typed = NothingTyped
    /\ start = 0
    /\ steps = <<>>
    /\ iterations = <<>>
    /\ answers = <<>>


\* discount_option -> the discount built and whether the warning is printed.
select_discount_swapped(option) ==
    IF option = 1 THEN [discount |-> PercentageDiscount(TenPercent), warn |-> FALSE]
    ELSE IF option = 2 THEN [discount |-> NoDiscount, warn |-> FALSE]
    ELSE [discount |-> NoDiscount, warn |-> TRUE]

\* The else branch binds nothing: the discount of the order before stays.
select_discount_sticky(option) ==
    IF option = 1 THEN [discount |-> NoDiscount, warn |-> FALSE]
    ELSE IF option = 2 THEN [discount |-> PercentageDiscount(TenPercent), warn |-> FALSE]
    ELSE [discount |-> discount, warn |-> TRUE]

select_discount(option) ==
    IF option = 1 THEN [discount |-> NoDiscount, warn |-> FALSE]
    ELSE IF option = 2 THEN [discount |-> PercentageDiscount(TenPercent), warn |-> FALSE]
    ELSE [discount |-> NoDiscount, warn |-> TRUE]

\* ------------------------------------------------------------- get_user_input
PaymentMenu ==
    <<Printed("payment_menu"), Printed("payment_menu_1"), Printed("payment_menu_2")>>
DiscountMenu ==
    <<Printed("discount_menu"), Printed("discount_menu_1"), Printed("discount_menu_2")>>
WarnIf(b, w) == IF b THEN <<Printed(w)>> ELSE <<>>

\* while True: get_user_input() is entered and prints the welcome line.
call_get_user_input ==
    /\ pc = "main"
    /\ out' = Append(out, Printed("welcome"))
    /\ typed' = NothingTyped
    /\ start' = Len(out)
    /\ steps' = <<>>
    /\ pc' = "customer"
    /\ UNCHANGED <<error, locals, order, order_service, discounted_total,
                   iterations, answers>>

input_customer(Lines) ==
    /\ pc = "customer"
    /\ \E line \in Lines :
        /\ out' = Append(out, Prompt("customer"))
        /\ customer' = line
        /\ typed' = Type("customer", line)
    /\ pc' = "items"
    /\ UNCHANGED <<error, items, total, payment_option, payment_processor,
                   discount_option, discount, order, order_service,
                   discounted_total, start, steps, iterations, answers>>

input_items(Lines) ==
    /\ pc = "items"
    /\ \E line \in Lines :
        /\ out' = Append(out, Prompt("items"))
        /\ items' = Split(line)
        /\ typed' = Type("items", line)
    /\ pc' = "total"
    /\ UNCHANGED <<error, customer, total, payment_option, payment_processor,
                   discount_option, discount, order, order_service,
                   discounted_total, start, steps, iterations, answers>>

input_total(Lines) ==
    /\ pc = "total"
    /\ \E line \in Lines :
        LET r == ParseFloat(line)
        IN  /\ typed' = Type("total", line)
            /\ IF r.ok
               THEN /\ total' = r.value
                    /\ out' = Append(out, Prompt("total")) \o PaymentMenu
                    /\ pc' = "payment"
                    /\ error' = error
               ELSE /\ total' = total
                    /\ out' = Append(out, Prompt("total"))
                    /\ pc' = "crashed"
                    /\ error' = "ValueError"
    /\ UNCHANGED <<customer, items, payment_option, payment_processor,
                   discount_option, discount, order, order_service,
                   discounted_total, start, steps, iterations, answers>>

input_payment_option(Lines) ==
    /\ pc = "payment"
    /\ \E line \in Lines :
        LET r == ParseInt(line)
            chosen == select_payment(r.value)
        IN  /\ typed' = Type("payment", line)
            /\ IF r.ok
               THEN /\ payment_option' = r.value
                    /\ payment_processor' = chosen.processor
                    /\ out' = Append(out, Prompt("payment"))
                                \o WarnIf(chosen.warn, "invalid_payment") \o DiscountMenu
                    /\ pc' = "discount"
                    /\ error' = error
               ELSE /\ payment_option' = payment_option
                    /\ payment_processor' = payment_processor
                    /\ out' = Append(out, Prompt("payment"))
                    /\ pc' = "crashed"
                    /\ error' = "ValueError"
    /\ UNCHANGED <<customer, items, total, discount_option, discount, order,
                   order_service, discounted_total, start, steps, iterations, answers>>

\* Reads the discount option, builds Order and OrderService, calls place_order.
input_discount_option(Lines) ==
    /\ pc = "discount"
    /\ \E line \in Lines :
        LET r == ParseInt(line)
            chosen == select_discount(r.value)
        IN  /\ typed' = Type("discount", line)
            /\ IF r.ok
               THEN /\ discount_option' = r.value
                    /\ discount' = chosen.discount
                    /\ out' = Append(out, Prompt("discount"))
                                \o WarnIf(chosen.warn, "invalid_discount")
                    /\ order' = [items |-> items, customer |-> customer]
                    /\ order_service' = [payment_processor |-> payment_processor,
                                         discount |-> chosen.discount]
                    /\ pc' = "place_order_apply"
                    /\ error' = error
               ELSE /\ discount_option' = discount_option
                    /\ discount' = discount
                    /\ out' = Append(out, Prompt("discount"))
                    /\ order' = order
                    /\ order_service' = order_service
                    /\ pc' = "crashed"
                    /\ error' = "ValueError"
    /\ UNCHANGED <<customer, items, total, payment_option, payment_processor,
                   discounted_total, start, steps, iterations, answers>>

\* ------------------------------------------------------------- OrderService.place_order
place_order_apply_skipping ==
    /\ pc = "place_order_apply"
    /\ discounted_total' = apply_discount(order_service.discount, total)
    /\ steps' = Append(steps, "apply_discount")
    /\ pc' = IF order_service.discount.kind = "NoDiscount"
             THEN "place_order_pay" ELSE "place_order_print"
    /\ UNCHANGED <<out, error, locals, order, order_service, typed, start,
                   iterations, answers>>

place_order_apply ==
    /\ pc = "place_order_apply"
    /\ discounted_total' = apply_discount(order_service.discount, total)
    /\ steps' = Append(steps, "apply_discount")
    /\ pc' = "place_order_print"
    /\ UNCHANGED <<out, error, locals, order, order_service, typed, start,
                   iterations, answers>>

place_order_print ==
    /\ pc = "place_order_print"
    /\ out' = Append(out, FinalTotal(discounted_total))
    /\ steps' = Append(steps, "print")
    /\ pc' = "place_order_pay"
    /\ UNCHANGED <<error, locals, order, order_service, discounted_total, typed,
                   start, iterations, answers>>

place_order_pay_undiscounted ==
    /\ pc = "place_order_pay"
    /\ out' = Append(out, process_payment(order_service.payment_processor, total))
    /\ steps' = Append(steps, "process_payment")
    /\ pc' = "place_order_save"
    /\ UNCHANGED <<error, locals, order, order_service, discounted_total, typed,
                   start, iterations, answers>>

place_order_pay ==
    /\ pc = "place_order_pay"
    /\ out' = Append(out, process_payment(order_service.payment_processor,
                                          discounted_total))
    /\ steps' = Append(steps, "process_payment")
    /\ pc' = "place_order_save"
    /\ UNCHANGED <<error, locals, order, order_service, discounted_total, typed,
                   start, iterations, answers>>

\* The last statement of place_order; get_user_input then returns to the loop.
place_order_save ==
    /\ pc = "place_order_save"
    /\ out' = Append(out, save_order(order))
    /\ steps' = Append(steps, "save_order")
    /\ iterations' = Append(iterations,
                            [typed |-> typed, out |-> SubSeq(out', start + 1, Len(out'))])
    /\ pc' = "continue"
    /\ UNCHANGED <<error, locals, order, order_service, discounted_total, typed,
                   start, answers>>

\* ------------------------------------------------------------- the main loop
\* A session of `cap` orders is not asked for another one.
input_continue_shopping(Lines, cap) ==
    /\ pc = "continue"
    /\ \E line \in Lines :
        /\ Continues(line) => Len(iterations) < cap
        /\ answers' = Append(answers, line)
        /\ IF Continues(line)
           THEN /\ out' = Append(out, Prompt("continue"))
                /\ pc' = "main"
           ELSE /\ out' = out \o <<Prompt("continue"), Printed("closing")>>
                /\ pc' = "done"
    /\ UNCHANGED <<error, locals, order, order_service, discounted_total, typed,
                   start, steps, iterations>>

\* input() at end of input: EOFError, which nothing catches.
PromptPcs == {"customer", "items", "total", "payment", "discount", "continue"}

input_eof ==
    /\ pc \in PromptPcs
    /\ out' = Append(out, Prompt(pc))
    /\ pc' = "crashed"
    /\ error' = "EOFError"
    /\ UNCHANGED <<locals, order, order_service, discounted_total, typed, start,
                   steps, iterations, answers>>

\* ------------------------------------------------------------- specifications
Next ==
    \/ call_get_user_input
    \/ input_customer(CustomerLines)
    \/ input_items(ItemLines)
    \/ input_total(TotalLines)
    \/ input_payment_option(OptionLines)
    \/ input_discount_option(OptionLines)
    \/ place_order_apply
    \/ place_order_print
    \/ place_order_pay
    \/ place_order_save
    \/ input_continue_shopping(AnswerLines, MaxOrders)
    \/ input_eof

Spec == Init /\ [][Next]_vars

NextLoop ==
    \/ call_get_user_input
    \/ input_customer(LoopCustomerLines)
    \/ input_items(LoopItemLines)
    \/ input_total(LoopTotalLines)
    \/ input_payment_option(LoopOptionLines)
    \/ input_discount_option(LoopOptionLines)
    \/ place_order_apply
    \/ place_order_print
    \/ place_order_pay
    \/ place_order_save
    \/ input_continue_shopping(AnswerLines, MaxLoopOrders)
    \/ input_eof

SpecLoop == Init /\ [][NextLoop]_vars


\* ------------------------------------------------------------- reading the state
\* What the current iteration has put on standard output.
Current == SubSeq(out, start + 1, Len(out))

Has(seq, e) == \E i \in 1..Len(seq) : seq[i] = e
At(seq, kind) == {i \in 1..Len(seq) : seq[i].ev = kind}
Where(seq, e) == {i \in 1..Len(seq) : seq[i] = e}
Last(seq) == seq[Len(seq)]

PaymentWarning == Printed("invalid_payment")
DiscountWarning == Printed("invalid_discount")
Closing == Printed("closing")

\* int() returned at the payment prompt / at the discount prompt of this iteration.
PaymentChosen ==
    /\ "payment" \in typed.has
    /\ ~(error = "ValueError" /\ "discount" \notin typed.has)
DiscountChosen == "discount" \in typed.has /\ error # "ValueError"

\* place_order has run to its end in this iteration.
OrderPlaced == Len(steps) = 4

\* ------------------------------------------------------------- C1
C1_SelectedVariant ==
    IF payment_option = 2 THEN "PixPayment" ELSE "CreditCardPayment"

\* C1: payment option 1 selects CreditCardPayment without a warning, 2 selects
\* PixPayment without a warning, every other integer (0 and negatives too)
\* selects CreditCardPayment and prints the invalid-payment warning; the payment
\* confirmation of the order is the selected variant's.
C1_PaymentSelection ==
    PaymentChosen =>
        /\ payment_processor = C1_SelectedVariant
        /\ Has(Current, PaymentWarning) <=> payment_option \notin {1, 2}
        /\ \A i \in At(Current, "payment") : Current[i].variant = C1_SelectedVariant
        /\ OrderPlaced => At(Current, "payment") # {}

C1_Witness ==
    /\ pc = "continue"
    /\ payment_option < 0
    /\ Has(Current, PaymentWarning)
    /\ \E i \in At(Current, "payment") : Current[i].variant = "CreditCardPayment"

\* ------------------------------------------------------------- C2
C2_Discounted(amount) ==
    IF discount_option = 2 THEN 10 * amount = 9 * total ELSE amount = total

\* C2: discount option 1 leaves the total as entered without a warning, 2 gives
\* total x 0.9 without a warning, every other integer leaves the total as entered
\* and prints the invalid-discount warning.
C2_DiscountSelection ==
    DiscountChosen =>
        /\ Has(Current, DiscountWarning) <=> discount_option \notin {1, 2}
        /\ Len(steps) >= 1 => C2_Discounted(discounted_total)
        /\ \A i \in At(Current, "final_total") : C2_Discounted(Current[i].amount)
        /\ OrderPlaced => At(Current, "final_total") # {}

C2_Witness ==
    /\ pc = "continue"
    /\ discount_option = 2
    /\ total = 100 * Scale
    /\ Has(Current, FinalTotal(90 * Scale))
    /\ ~Has(Current, DiscountWarning)

\* ------------------------------------------------------------- C3
PlaceOrderSteps == <<"apply_discount", "print", "process_payment", "save_order">>
PlaceOrderLines == <<"final_total", "payment", "saved">>
IsOrderLine(e) == e.ev \in {"final_total", "payment", "saved"}
Kinds(seq) == [i \in 1..Len(seq) |-> seq[i].ev]

\* C3: every call of place_order applies the discount, prints the discounted
\* total, prints the payment confirmation and prints the order-saved line, once
\* each and in that order, whatever the variants and the amount.
C3_FixedOrder ==
    /\ \E k \in 0..4 :
        /\ steps = SubSeq(PlaceOrderSteps, 1, k)
        /\ Kinds(SelectSeq(Current, IsOrderLine))
             = SubSeq(PlaceOrderLines, 1, IF k = 0 THEN 0 ELSE k - 1)
    /\ pc \in {"continue", "done"} => OrderPlaced
    /\ pc \in {"place_order_apply", "place_order_print", "place_order_pay",
               "place_order_save"} => ~OrderPlaced
    /\ \A n \in 1..Len(iterations) :
        Kinds(SelectSeq(iterations[n].out, IsOrderLine)) = PlaceOrderLines

C3_Witness ==
    /\ pc = "continue"
    /\ steps = PlaceOrderSteps
    /\ order_service.discount.kind = "NoDiscount"
    /\ order_service.payment_processor = "PixPayment"
    /\ Kinds(SelectSeq(Current, IsOrderLine)) = PlaceOrderLines


\* ------------------------------------------------------------- C4
AffirmativeAnswers == { <<"s">>, <<"S">> }

RECURSIVE LeadingAffirmative(_)
LeadingAffirmative(as) ==
    IF as # <<>> /\ Head(as) \in AffirmativeAnswers
    THEN 1 + LeadingAffirmative(Tail(as))
    ELSE 0

OrdersProcessed == Cardinality(At(out, "saved"))

\* C4: a session of well-formed inputs that has ended processed one order more
\* than the affirmative answers ("s" or "S") given before the first other answer:
\* "n" or "N" at the first continuation prompt gives one order, "s" then "n" two.
C4_OrdersCounted ==
    /\ pc = "done" =>
        /\ OrdersProcessed = 1 + LeadingAffirmative(answers)
        /\ LeadingAffirmative(answers) = Len(answers) - 1
    /\ (pc = "done" /\ answers \in { << <<"n">> >>, << <<"N">> >> }) => OrdersProcessed = 1
    /\ (pc = "done" /\ answers = << <<"s">>, <<"n">> >>) => OrdersProcessed = 2
    /\ pc = "continue" => OrdersProcessed = 1 + Len(answers)

C4_Witness ==
    /\ pc = "done"
    /\ answers = << <<"s">>, <<"n">> >>
    /\ OrdersProcessed = 2

\* ------------------------------------------------------------- C5
C5_Answered ==
    (pc = "continue" /\ answers' # answers) =>
        LET answer == Last(answers')
        IN  /\ pc' = "main" <=> answer \in AffirmativeAnswers
            /\ answer \notin AffirmativeAnswers =>
                /\ pc' = "done"
                /\ error' = ""
                /\ Last(out') = Closing
                /\ Cardinality(Where(out', Closing)) = 1
                /\ out' = out \o <<Prompt("continue"), Closing>>
            /\ answer \in AffirmativeAnswers => ~Has(out', Closing)

\* C5: an answer at the continuation prompt starts a new order exactly when it
\* is "s" or "S"; every other answer ("y", "Y", "", "sim", " s", ...) ends the
\* session normally with the closing message printed once, as the last output,
\* and nothing runs after it.
C5_ContinueOnlyOnS == [][pc # "done" /\ C5_Answered]_vars

C5_Witness ==
    /\ pc = "done"
    /\ Last(answers) = <<"s", "i", "m">>
    /\ Len(answers) = 2
    /\ Last(out) = Closing


\* ------------------------------------------------------------- C6
NumericPrompts == {"total", "payment", "discount"}
\* Lines of the vocabulary that float() rejects, and that int() rejects.
MalformedFloatLines == { <<"a", "b", "c">> }
MalformedIntLines == { <<"1", ".", "5">>, <<"x">> }
\* Lines of the vocabulary that are no number at all.
NotNumberLines == { <<"a", "b", "c">>, <<"x">> }

\* The session ended abnormally at prompt w, with nothing of the order printed.
C6_AbortedAt(w) ==
    /\ pc = "crashed"
    /\ error = "ValueError"
    /\ Last(out) = Prompt(w)
    /\ {i \in 1..Len(Current) : IsOrderLine(Current[i])} = {}
    /\ ~Has(Current, Prompt("continue"))
    /\ ~Has(out, Closing)

C6_Unparseable(w) ==
    /\ w \in typed.has
    /\ typed[w] \in (IF w = "total" THEN MalformedFloatLines ELSE MalformedIntLines)

\* C6 as claimed: a total or option that is no number ends the session abnormally
\* at that prompt (no order line, no continuation prompt, no closing message),
\* and a session ends in no other way than this or a non-affirmative answer.
C6_Original ==
    /\ \A w \in NumericPrompts :
        (w \in typed.has /\ typed[w] \in NotNumberLines) => C6_AbortedAt(w)
    /\ pc = "crashed" =>
        \E w \in NumericPrompts :
            w \in typed.has /\ typed[w] \in NotNumberLines /\ Last(out) = Prompt(w)
    /\ pc = "done" => answers # <<>> /\ Last(answers) \notin AffirmativeAnswers

\* C6, amended: a total that float() rejects, or an option that int() rejects
\* (a decimal such as "1.5" included), ends the session abnormally at that
\* prompt (no order line, no continuation prompt, no closing message); a session
\* ends only by this, by end of input at a prompt (EOFError, also without closing
\* message), or by a non-affirmative answer at the continuation prompt.
C6_AbnormalEnds ==
    /\ \A w \in NumericPrompts : C6_Unparseable(w) => C6_AbortedAt(w)
    /\ pc = "crashed" =>
        \/ /\ error = "ValueError"
           /\ \E w \in NumericPrompts : C6_Unparseable(w) /\ Last(out) = Prompt(w)
        \/ /\ error = "EOFError"
           /\ Last(out).ev = "prompt"
           /\ Last(out).what \notin typed.has
           /\ ~Has(out, Closing)
    /\ pc = "done" =>
        /\ error = ""
        /\ answers # <<>> /\ Last(answers) \notin AffirmativeAnswers
    /\ pc \notin {"done", "crashed"} => error = "" /\ ENABLED Next

C6_Witness ==
    /\ pc = "crashed"
    /\ error = "ValueError"
    /\ "payment" \in typed.has
    /\ typed.payment = <<"1", ".", "5">>
    /\ Last(out) = Prompt("payment")

\* ------------------------------------------------------------- C7
\* Rates above zero, in units of 1/Scale; the last two are rates >= 1.
Rates == {10, 50, 100, 150}

\* float() returned at the total prompt of this iteration.
TotalAccepted ==
    /\ "total" \in typed.has
    /\ ~(error = "ValueError" /\ "payment" \notin typed.has)

\* PercentageDiscount.apply_discount has returned in this iteration.
C7_Applied ==
    /\ Len(steps) >= 1
    /\ order_service.discount.kind = "PercentageDiscount"
    /\ order_service.discount.percentage > 0

\* C7 as claimed: with a rate above zero, apply_discount returns at most the
\* total it was given, for every total the program accepts (zero and negative
\* totals included).
C7_Original ==
    TotalAccepted =>
        /\ \A r \in Rates : apply_discount(PercentageDiscount(r), total) <= total
        /\ C7_Applied => discounted_total <= total

\* C7, amended: with a rate above zero, apply_discount returns at most the total
\* it was given, for every total >= 0 the program accepts.
C7_NeverAboveTotal ==
    (TotalAccepted /\ total >= 0) =>
        /\ \A r \in Rates : apply_discount(PercentageDiscount(r), total) <= total
        /\ C7_Applied => discounted_total <= total

C7_Witness ==
    /\ pc = "place_order_print"
    /\ C7_Applied
    /\ total > 0
    /\ discounted_total < total


\* ------------------------------------------------------------- C8
PlaceOrderPcs ==
    {"place_order_apply", "place_order_print", "place_order_pay", "place_order_save"}

\* The iteration ended before its continuation prompt.
C8_Aborted == pc = "crashed" /\ ~Has(Current, Prompt("continue"))

PaymentUnrecognized == PaymentChosen /\ payment_option \notin {1, 2}
DiscountUnrecognized == DiscountChosen /\ discount_option \notin {1, 2}

\* Each warning comes before the order's lines, the payment warning first.
C8_WarningsFirst ==
    /\ \A i \in Where(Current, PaymentWarning) \cup Where(Current, DiscountWarning) :
        \A j \in At(Current, "final_total") \cup At(Current, "payment") : i < j
    /\ \A i \in Where(Current, PaymentWarning) :
        \A j \in Where(Current, DiscountWarning) : i < j

\* The iteration has printed its three lines and come to the continuation prompt.
C8_Completed ==
    /\ OrderPlaced
    /\ Kinds(SelectSeq(Current, IsOrderLine)) = PlaceOrderLines
    /\ pc = "continue" \/ Has(Current, Prompt("continue"))

\* C8 as claimed: an unrecognized payment or discount option does not abort the
\* iteration; its warning comes before the discounted total and the payment
\* confirmation, the iteration goes on to print the three order lines and to
\* reach the continuation prompt, and the payment warning comes first.
C8_Original ==
    /\ C8_WarningsFirst
    /\ PaymentUnrecognized => Has(Current, PaymentWarning) /\ ~C8_Aborted
    /\ DiscountUnrecognized => Has(Current, DiscountWarning) /\ ~C8_Aborted
    /\ (PaymentUnrecognized \/ DiscountUnrecognized) =>
        pc \in PlaceOrderPcs \cup {"payment", "discount"} \/ C8_Completed

\* C8, amended: an unrecognized option does not itself abort the iteration and
\* its warning comes before the discounted total and the payment confirmation,
\* the payment warning first; once the discount option has been read as an
\* integer the iteration prints the three order lines and reaches the
\* continuation prompt; after an unrecognized payment option the iteration is
\* aborted only at the discount prompt (an unparseable line or end of input).
C8_WarnAndGoOn ==
    /\ C8_WarningsFirst
    /\ PaymentUnrecognized =>
        /\ Cardinality(Where(Current, PaymentWarning)) = 1
        /\ C8_Aborted => Last(out) = Prompt("discount")
        /\ ~C8_Aborted => pc \in PlaceOrderPcs \cup {"discount"} \/ C8_Completed
    /\ DiscountUnrecognized =>
        /\ Cardinality(Where(Current, DiscountWarning)) = 1
        /\ ~C8_Aborted
        /\ pc \in PlaceOrderPcs \/ C8_Completed

C8_Witness ==
    /\ pc = "continue"
    /\ payment_option = 9
    /\ discount_option = 0
    /\ Has(Current, PaymentWarning) /\ Has(Current, DiscountWarning)
    /\ C8_Completed

C10_Expected(t) ==
    LET p == ParseInt(t.payment).value
        d == ParseInt(t.discount).value
        entered == ParseFloat(t.total).value
        amount == IF d = 2 THEN (9 * entered) \div 10 ELSE entered
        variant == IF p = 2 THEN "PixPayment" ELSE "CreditCardPayment"
    IN  <<Printed("welcome"), Prompt("customer"), Prompt("items"), Prompt("total")>>
          \o PaymentMenu \o <<Prompt("payment")>>
          \o WarnIf(p \notin {1, 2}, "invalid_payment")
          \o DiscountMenu \o <<Prompt("discount")>>
          \o WarnIf(d \notin {1, 2}, "invalid_discount")
          \o <<FinalTotal(amount), process_payment(variant, amount),
               [ev |-> "saved", customer |-> t.customer, items |-> Split(t.items)]>>

\* C10: what an iteration prints is a function of the lines typed in that
\* iteration only: two orders of a session with the same typed lines print the
\* same, whatever came before, no payment method or discount of an earlier order
\* applies to a later one, and the saved order has the customer and items of its
\* own iteration.
C10_NoCarryOver ==
    /\ \A m \in 1..Len(iterations) : \A n \in 1..Len(iterations) :
        iterations[m].typed = iterations[n].typed
            => iterations[m].out = iterations[n].out
    /\ \A n \in 1..Len(iterations) :
        iterations[n].out = C10_Expected(iterations[n].typed)

C10_Witness ==
    /\ Len(iterations) = 2
    /\ iterations[1].typed.customer = Ana /\ iterations[2].typed.customer = Bob
    /\ iterations[1].typed.items = Tv /\ iterations[2].typed.items = BreadMilk
    /\ iterations[1].typed.payment = <<"2">> /\ iterations[2].typed.payment = <<"3">>
    /\ iterations[1].typed.discount = <<"2">> /\ iterations[2].typed.discount = <<"3">>
    /\ Has(iterations[1].out, FinalTotal(90 * Scale))
    /\ Has(iterations[2].out, FinalTotal(100 * Scale))
    /\ Has(iterations[2].out, process_payment("CreditCardPayment", 100 * Scale))
    /\ Has(iterations[2].out,
           [ev |-> "saved", customer |-> Bob, items |-> << <<"b">>, <<"m">> >>])

====
